---------------------------- MODULE Spec2Model ----------------------------
(***************************************************************************)
(* A model of aspen's negotiated and JSON resources:                       *)
(*   src/aspen/resources/negotiated_resource.py                            *)
(*   src/aspen/resources/json_resource.py                                  *)
(* Byte strings are TLA+ strings; a character is a string of length one.   *)
(***************************************************************************)
EXTENDS Integers, Sequences, FiniteSets, TLC

VARIABLES
    specline,         \* SpecParse: the argument of _parse_specline
    parsed,           \* SpecParse: what _parse_specline returned or raised
    jreq,             \* SpecJSON: the request (context flags, querystring)
    jresp,            \* SpecJSON: the response object _process mutates
    jpc,              \* SpecJSON: which entry point has run
    renderers,        \* NegotiatedResource.renderers
    available_types,  \* NegotiatedResource.available_types
    pages,            \* DynamicResource.pages (index 3 here is pages[2])
    phase,            \* "compiling" (inside __init__) or "compiled"
    last,             \* outcome of the latest compile_page call
    ncalls,           \* number of compile_page calls made so far
    req,              \* per request: its Accept header, context
    resp,             \* per request: its own response object
    pc,               \* per request: position inside get_response
    loc               \* per request: get_response's locals

vars == <<specline, parsed, jreq, jresp, jpc, renderers, available_types,
          pages, phase, last, ncalls, req, resp, pc, loc>>

parseVars == <<specline, parsed>>
jsonVars == <<jreq, jresp, jpc>>
resourceVars == <<renderers, available_types, pages, phase, last, ncalls>>
requestVars == <<req, resp, pc, loc>>

None == "<None>"

-----------------------------------------------------------------------------
(* Bounds of the model.                                                    *)

MaxTokLen == 4
MaxCallbackLen == 3
MaxCompileCalls == 2
NumRequests == 2

-----------------------------------------------------------------------------
(* Strings.                                                                *)

Lower == {"a","b","c","d","e","f","g","h","i","j","k","l","m","n","o","p","q",
          "r","s","t","u","v","w","x","y","z"}
Upper == {"A","B","C","D","E","F","G","H","I","J","K","L","M","N","O","P","Q",
          "R","S","T","U","V","W","X","Y","Z"}
Digit == {"0","1","2","3","4","5","6","7","8","9"}

\* Python's str whitespace, as str.split() with no argument uses it.
Whitespace == {" ", "\t", "\n", "\r", "\f"}

CharAt(s, i) == IF 1 <= i /\ i <= Len(s) THEN SubSeq(s, i, i) ELSE ""

\* The number of consecutive characters of s, from position i, that are in C.
RECURSIVE RunLen(_, _, _)
RunLen(s, i, C) ==
    IF i <= Len(s) /\ CharAt(s, i) \in C THEN 1 + RunLen(s, i + 1, C) ELSE 0

StartsWith(s, p) == Len(s) >= Len(p) /\ SubSeq(s, 1, Len(p)) = p

\* The first position >= i of s holding a character of C, or Len(s) + 1.
RECURSIVE FindFrom(_, _, _)
FindFrom(s, i, C) ==
    IF i > Len(s) \/ CharAt(s, i) \in C THEN i ELSE FindFrom(s, i + 1, C)

\* s.split(): the maximal runs of non-whitespace characters, in order.
RECURSIVE SplitFrom(_, _)
SplitFrom(s, i) ==
    LET b == i + RunLen(s, i, Whitespace)
        e == FindFrom(s, b, Whitespace)
    IN  IF b > Len(s) THEN <<>>
        ELSE <<SubSeq(s, b, e - 1)>> \o SplitFrom(s, e)

Split(s) == SplitFrom(s, 1)

\* s.strip(chars)
RECURSIVE RunLenBack(_, _, _)
RunLenBack(s, i, C) ==
    IF i >= 1 /\ CharAt(s, i) \in C THEN 1 + RunLenBack(s, i - 1, C) ELSE 0

Strip(s, C) ==
    LET b == 1 + RunLen(s, 1, C)
        e == Len(s) - RunLenBack(s, Len(s), C)
    IN  IF b > e THEN "" ELSE SubSeq(s, b, e)

\* sep.join(parts)
RECURSIVE Join(_, _)
Join(parts, sep) ==
    IF parts = <<>> THEN ""
    ELSE IF Len(parts) = 1 THEN parts[1]
    ELSE parts[1] \o sep \o Join(Tail(parts), sep)

\* All strings over the alphabet A of length at most n.
RECURSIVE StringsUpTo(_, _)
StringsUpTo(A, n) ==
    IF n = 0 THEN {""}
    ELSE LET S == StringsUpTo(A, n - 1) IN S \cup {s \o c : s \in S, c \in A}

Range(f) == {f[i] : i \in DOMAIN f}

-----------------------------------------------------------------------------
(* The module-level patterns.  re.match anchors a pattern at the start of  *)
(* the string only and says nothing of what follows the match; each        *)
(* operator is TRUE iff re.match returns a match object (not None).  No    *)
(* class contains the literal that follows it, so the greedy match never   *)
(* has to backtrack.                                                       *)

MediaTypeChars == Lower \cup Upper \cup Digit \cup {".", "+", "-"}
RendererChars == Lower \cup Digit \cup {".", "-"}
CallbackChars == Lower \cup Upper \cup Digit \cup {"_"}

renderer_re_pattern == "#![a-z0-9.-]+"
media_type_re_pattern == "[A-Za-z0-9.+-]+/[A-Za-z0-9.+-]+"

media_type_re_match(s) ==
    LET n1 == RunLen(s, 1, MediaTypeChars)
        n2 == RunLen(s, n1 + 2, MediaTypeChars)
    IN  n1 >= 1 /\ CharAt(s, n1 + 1) = "/" /\ n2 >= 1

renderer_re_match(s) ==
    LET n == RunLen(s, 3, RendererChars)
    IN  StartsWith(s, "#!") /\ n >= 1

callback_pattern_match(s) == RunLen(s, 1, CallbackChars) >= 1

-----------------------------------------------------------------------------
(* The host's configuration (the website object).                          *)

\* The names website.renderer_factories has a factory for.
renderer_factories == {"tornado", "pystache"}

media_type_json == "application/json"
media_type_jsonp == "application/javascript"

\* aspen.resources.PAGE_BREAK, the form feed that separates pages.
PAGE_BREAK == "\f"

-----------------------------------------------------------------------------
(* NegotiatedResource._parse_specline and _get_renderer_factory.           *)
(* A call's outcome is a record: kind "ok" with the returned values, or    *)
(* kind "SyntaxError" / "ValueError" with the exception's message.         *)

Raise(exc, msg) == [kind |-> exc, msg |-> msg]

_get_renderer_factory(renderer) ==
    IF renderer = None THEN [kind |-> "ok", make_renderer |-> None]
    ELSE IF ~renderer_re_match(renderer)
    THEN Raise("SyntaxError",
               "Malformed renderer " \o renderer \o ". It must match "
               \o renderer_re_pattern \o ".")
    ELSE LET name == SubSeq(renderer, 3, Len(renderer))
         IN  [kind |-> "ok",
              make_renderer |-> IF name \in renderer_factories
                                THEN name ELSE None]

_parse_specline(line) ==
    IF line = ""
    THEN Raise("SyntaxError",
               "Content pages in negotiated resources must have a specline.")
    ELSE
    LET parts == Split(line)
        nparts == Len(parts)
    IN  IF nparts \notin {1, 2}
        THEN Raise("SyntaxError",
                   "A negotiated resource specline must have one or two "
                   \o "parts: #!renderer media/type. Yours is: " \o line \o ".")
        ELSE
        LET renderer == IF nparts = 1 THEN "#!tornado" ELSE parts[1]
            media_type == IF nparts = 1 THEN parts[1] ELSE parts[2]
        IN  IF ~media_type_re_match(media_type)
            THEN Raise("SyntaxError",
                       "Malformed media type " \o media_type \o " in specline "
                       \o line \o ". It must match " \o media_type_re_pattern
                       \o ".")
            ELSE
            LET f == _get_renderer_factory(renderer)
            IN  IF f.kind # "ok" THEN f
                ELSE IF f.make_renderer = None
                THEN Raise("ValueError",
                           "Unknown renderer for " \o media_type \o ": "
                           \o renderer \o ".")
                ELSE [kind |-> "ok", make_renderer |-> f.make_renderer,
                      media_type |-> media_type]

-----------------------------------------------------------------------------
(* Python values, as far as response.body and the context flags need them. *)

PyNone == [t |-> "NoneType", s |-> "None", items |-> <<>>]
PyBool(b) == [t |-> "bool", s |-> IF b THEN "True" ELSE "False", items |-> <<>>]
PyInt(digits) == [t |-> "int", s |-> digits, items |-> <<>>]
PyStr(chars) == [t |-> "str", s |-> chars, items |-> <<>>]
PyList(vs) == [t |-> "list", s |-> "", items |-> vs]
PyDict(kvs) == [t |-> "dict", s |-> "", items |-> kvs]

\* isinstance(v, basestring)
IsBasestring(v) == v.t = "str"

\* bool(v)
Truthy(v) ==
    CASE v.t = "NoneType" -> FALSE
      [] v.t = "bool" -> v.s = "True"
      [] v.t = "int" -> v.s # "0"
      [] v.t = "str" -> v.s # ""
      [] OTHER -> v.items # <<>>

\* json.dumps(v), for values whose strings need no escaping.  A dict's items
\* are <<key, value>> pairs.
RECURSIVE json_dumps(_)
json_dumps(v) ==
    CASE v.t = "NoneType" -> "null"
      [] v.t = "bool" -> IF v.s = "True" THEN "true" ELSE "false"
      [] v.t = "int" -> v.s
      [] v.t = "str" -> "\"" \o v.s \o "\""
      [] v.t = "list" ->
           "[" \o Join([i \in DOMAIN v.items |-> json_dumps(v.items[i])], ", ")
           \o "]"
      [] OTHER ->
           "{" \o Join([i \in DOMAIN v.items |->
                          json_dumps(v.items[i][1]) \o ": "
                          \o json_dumps(v.items[i][2])], ", ")
           \o "}"

-----------------------------------------------------------------------------
(* JSONResource.                                                           *)

\* headers[name] = value
SetHeader(headers, name, value) ==
    [h \in DOMAIN headers \cup {name} |->
        IF h = name THEN value ELSE headers[h]]

\* _process with the JSON Content-Type assigned after the JSONP dance
\* instead of before it.
_process_type_assigned_last(response, request) ==
    LET r1 == IF ~IsBasestring(response.body)
              THEN [response EXCEPT !.body = PyStr(json_dumps(response.body))]
              ELSE response
        r2 == IF /\ Truthy(request.enable_jsonp)
                 /\ request.callback # None
                 /\ callback_pattern_match(request.callback)
              THEN [body |-> PyStr(request.callback \o "(" \o r1.body.s \o ")"),
                    headers |-> SetHeader(r1.headers, "Content-Type",
                                          media_type_jsonp)]
              ELSE r1
        r3 == [r2 EXCEPT !.headers =
                  SetHeader(r2.headers, "Content-Type", media_type_json)]
    IN  IF Truthy(request.enable_cors)
        THEN [r3 EXCEPT !.headers =
                 SetHeader(r3.headers, "Access-Control-Allow-Origin", "*")]
        ELSE r3

\* _process with the CORS header set only when the JSONP dance did not wrap
\* the body (an elif in place of the second if).
_process_cors_unless_wrapped(response, request) ==
    LET r1 == IF ~IsBasestring(response.body)
              THEN [response EXCEPT !.body = PyStr(json_dumps(response.body))]
              ELSE response
        r2 == [r1 EXCEPT !.headers =
                  SetHeader(r1.headers, "Content-Type", media_type_json)]
    IN  IF /\ Truthy(request.enable_jsonp)
           /\ request.callback # None
           /\ callback_pattern_match(request.callback)
        THEN [body |-> PyStr(request.callback \o "(" \o r2.body.s \o ")"),
              headers |-> SetHeader(r2.headers, "Content-Type",
                                    media_type_jsonp)]
        ELSE IF Truthy(request.enable_cors)
        THEN [r2 EXCEPT !.headers =
                 SetHeader(r2.headers, "Access-Control-Allow-Origin", "*")]
        ELSE r2

\* JSONResource._process(response); response.request is the request.
_process(response, request) ==
    LET r1 == IF ~IsBasestring(response.body)
              THEN [response EXCEPT !.body = PyStr(json_dumps(response.body))]
              ELSE response
        r2 == [r1 EXCEPT !.headers =
                  SetHeader(r1.headers, "Content-Type", media_type_json)]
        r3 == IF /\ Truthy(request.enable_jsonp)
                 /\ request.callback # None
                 /\ callback_pattern_match(request.callback)
              THEN [body |-> PyStr(request.callback \o "(" \o r2.body.s \o ")"),
                    headers |-> SetHeader(r2.headers, "Content-Type",
                                          media_type_jsonp)]
              ELSE r2
    IN  IF Truthy(request.enable_cors)
        THEN [r3 EXCEPT !.headers =
                 SetHeader(r3.headers, "Access-Control-Allow-Origin", "*")]
        ELSE r3

\* The bodies, context flags and callback values the model draws from.
Bodies ==
    { PyStr("hello"), PyStr("{\"a\": 1}"), PyStr(""),
      PyNone, PyBool(TRUE), PyInt("1"),
      PyList(<<PyInt("1"), PyStr("a")>>),
      PyDict(<< <<PyStr("a"), PyInt("1")>> >>) }

Flags == {PyNone, PyBool(FALSE), PyBool(TRUE)}

CallbackAlphabet == {"f", "_", "(", "0"}

Callbacks ==
    {None, "foo", "foo(bar)"} \cup StringsUpTo(CallbackAlphabet, MaxCallbackLen)

EmptyHeaders == [h \in {} |-> ""]

InitialHeaders ==
    { EmptyHeaders, [h \in {"Content-Type"} |-> "text/html"],
      [h \in {"Access-Control-Allow-Origin"} |-> "http://example.com"] }

JSONInit ==
    /\ jreq \in [enable_jsonp : Flags, enable_cors : Flags,
                 callback : Callbacks]
    /\ \E b \in Bodies, h \in InitialHeaders :
          jresp = [orig |-> [body |-> b, headers |-> h],
                   now |-> [body |-> b, headers |-> h]]
    /\ jpc = "start"

JSONIdle ==
    /\ jreq = [enable_jsonp |-> PyNone, enable_cors |-> PyNone,
               callback |-> None]
    /\ jresp = [orig |-> [body |-> PyNone, headers |-> EmptyHeaders],
                now |-> [body |-> PyNone, headers |-> EmptyHeaders]]
    /\ jpc = "unused"

\* JSONResource.get_response(context): context['response'] is the response.
get_response_json ==
    /\ jpc = "start"
    /\ jresp' = [jresp EXCEPT !.now = _process(jresp.now, jreq)]
    /\ jpc' = "returned"
    /\ UNCHANGED <<jreq, parseVars, resourceVars, requestVars>>

\* JSONResource.process_raised_response(response)
process_raised_response ==
    /\ jpc = "start"
    /\ jresp' = [jresp EXCEPT !.now = _process(jresp.now, jreq)]
    /\ jpc' = "raised"
    /\ UNCHANGED <<jreq, parseVars, resourceVars, requestVars>>

-----------------------------------------------------------------------------
(* Content negotiation: aspen._mimeparse.mimeparse.best_match.             *)

\* s.split(c): the pieces of s between the occurrences of the character c.
RECURSIVE SplitOnFrom(_, _, _)
SplitOnFrom(s, i, c) ==
    LET e == FindFrom(s, i, {c})
    IN  IF e > Len(s) THEN <<SubSeq(s, i, Len(s))>>
        ELSE <<SubSeq(s, i, e - 1)>> \o SplitOnFrom(s, e + 1, c)

SplitOn(s, c) == SplitOnFrom(s, 1, c)

\* A q parameter's value in tenths; anything unreadable counts as 1.
QTenths(v) ==
    CASE v = "0" -> 0
      [] v = "0.0" -> 0
      [] v = "0.5" -> 5
      [] v = "0.8" -> 8
      [] OTHER -> 10

StripAll(seq) == [i \in DOMAIN seq |-> Strip(seq[i], Whitespace)]

IsQParam(param) == StartsWith(param, "q=")

NotBlank(x) == Strip(x, Whitespace) # ""

\* The q among a range's parameters, 1 when it has none.
QOf(params) ==
    LET qs == SelectSeq(params, IsQParam)
    IN  IF qs = <<>> THEN 10 ELSE QTenths(SubSeq(qs[1], 3, Len(qs[1])))

TypePair(ts, q) ==
    [type |-> Strip(ts[1], Whitespace),
     subtype |-> IF Len(ts) >= 2 THEN Strip(ts[2], Whitespace) ELSE "",
     q |-> q]

\* parts: the pieces of "type/subtype;param;..." between the semicolons.
MediaRange(parts) ==
    TypePair(SplitOn(IF parts[1] = "*" THEN "*/*" ELSE parts[1], "/"),
             QOf(Tail(parts)))

\* One media range as [type, subtype, q].
parse_media_range(range) == MediaRange(StripAll(SplitOn(range, ";")))

ParseRanges(rs) == [i \in DOMAIN rs |-> parse_media_range(rs[i])]

\* The ranges of an Accept header, blank ones dropped.
parse_accept(header) == ParseRanges(SelectSeq(SplitOn(header, ","), NotBlank))

\* How well one range fits a media type: -1 if it does not match at all.
Fitness(target, range) ==
    IF /\ range.type \in {target.type, "*"} \/ target.type = "*"
       /\ range.subtype \in {target.subtype, "*"} \/ target.subtype = "*"
    THEN (IF range.type = target.type THEN 100 ELSE 0)
         + (IF range.subtype = target.subtype THEN 10 ELSE 0)
    ELSE -1

\* [fitness, q] of the range that fits target best; q = 0 if none fits.
BestFit(target, ranges) ==
    LET fit == [i \in DOMAIN ranges |-> Fitness(target, ranges[i])]
        fits == {i \in DOMAIN ranges : fit[i] >= 0}
    IN  IF fits = {} THEN [fitness |-> -1, q |-> 0]
        ELSE LET i == CHOOSE i \in fits :
                        \A j \in fits :
                           fit[i] > fit[j] \/ (fit[i] = fit[j] /\ i <= j)
             IN  [fitness |-> fit[i], q |-> ranges[i].q]

fitness_and_quality_parsed(mime_type, parsed_ranges) ==
    BestFit(parse_media_range(mime_type), parsed_ranges)

Qualities(supported, parsed_ranges) ==
    [i \in DOMAIN supported |->
        fitness_and_quality_parsed(supported[i], parsed_ranges)]

\* The supported type with the highest q, then the most specific match, then
\* the earliest declared; "" if no type has a q above 0.
Choice(supported, fq) ==
    LET ok == {i \in DOMAIN supported : fq[i].q > 0}
        rank == [i \in DOMAIN supported |-> fq[i].q * 1000 + fq[i].fitness]
    IN  IF ok = {} THEN ""
        ELSE supported[CHOOSE i \in ok :
                          \A j \in ok :
                             rank[i] > rank[j] \/ (rank[i] = rank[j] /\ i <= j)]

\* The supported type the header likes best, "" if it accepts none of them.
best_match(supported, header) ==
    Choice(supported, Qualities(supported, parse_accept(header)))

-----------------------------------------------------------------------------
(* NegotiatedResource: compilation.                                        *)

min_pages == 3

\* The two logic pages DynamicResource compiles itself: pages[0], pages[1].
LogicPages == <<[render |-> None, media_type |-> "logic0"],
                [render |-> None, media_type |-> "logic1"]>>

\* make_renderer(self.fs, raw): the render function a factory binds to raw.
MakeRender(make_renderer, raw) == [renderer |-> make_renderer, raw |-> raw]

\* render(context): the text the render function produces for a context.
Render(render, context) ==
    "<" \o render.renderer \o ":" \o render.raw \o "|" \o context \o ">"

\* renderers[media_type] = render
SetRenderer(rs, media_type, render) ==
    [m \in DOMAIN rs \cup {media_type} |->
        IF m = media_type THEN render ELSE rs[m]]

NoRenderers == [m \in {} |-> None]

\* Lines 51-56: the page's first line, stripped, and the rest of the page.
SpeclineOf(page) ==
    LET nl == FindFrom(page, 1, {"\n"})
    IN  Strip(IF nl <= Len(page) THEN SubSeq(page, 1, nl - 1) ELSE "",
              {PAGE_BREAK, " ", "\n"})

RawOf(page) ==
    LET nl == FindFrom(page, 1, {"\n"})
    IN  IF nl <= Len(page) THEN SubSeq(page, nl + 1, Len(page)) ELSE page

\* Register without the duplicate check: a second page for a media type
\* replaces the first one's render function and is appended again.
Register_unchecked(rs, ats, p, render) ==
    [out |-> [kind |-> "ok", render |-> render, media_type |-> p.media_type],
     renderers |-> SetRenderer(rs, p.media_type, render),
     available_types |-> Append(ats, p.media_type)]

\* Register with the duplicate check made after the data structures were
\* updated: the call still raises, but the media type has been appended.
Register_checked_late(rs, ats, p, render) ==
    IF p.media_type \in DOMAIN rs
    THEN [out |-> Raise("SyntaxError",
                        "Two content pages defined for " \o p.media_type
                        \o "."),
          renderers |-> SetRenderer(rs, p.media_type, render),
          available_types |-> Append(ats, p.media_type)]
    ELSE [out |-> [kind |-> "ok", render |-> render,
                   media_type |-> p.media_type],
          renderers |-> SetRenderer(rs, p.media_type, render),
          available_types |-> Append(ats, p.media_type)]

\* Lines 58-66, given what _parse_specline returned (p.kind = "ok").
Register(rs, ats, p, render) ==
    IF p.media_type \in DOMAIN rs
    THEN [out |-> Raise("SyntaxError",
                        "Two content pages defined for " \o p.media_type
                        \o "."),
          renderers |-> rs, available_types |-> ats]
    ELSE [out |-> [kind |-> "ok", render |-> render,
                   media_type |-> p.media_type],
          renderers |-> SetRenderer(rs, p.media_type, render),
          available_types |-> Append(ats, p.media_type)]

\* Lines 57-66, given _parse_specline's outcome p: an exception leaves the
\* resource as it was.
Compiled(rs, ats, p, raw) ==
    IF p.kind # "ok"
    THEN [out |-> p, renderers |-> rs, available_types |-> ats]
    ELSE Register(rs, ats, p, MakeRender(p.make_renderer, raw))

\* compile_page(self, page, __ignored) on a resource whose renderers and
\* available_types are rs and ats: the call's outcome and the two fields
\* afterwards.
compile_page(rs, ats, page) ==
    Compiled(rs, ats, _parse_specline(SpeclineOf(page)), RawOf(page))

\* The content pages the model compiles from.
ContentPages ==
    { " #!tornado text/plain\nhello",
      " text/json\n{{dump}}",
      "\f #!pystache application/json\n{}",
      " text/plain\nbye",
      " text/plain;q=1\nhi",
      "no specline",
      " #!mako text/plain\nx",
      " #!tornado text\nx",
      " #!tornado text/html extra\nx",
      " tornado text/json\nx" }

ResourceInit ==
    /\ renderers = NoRenderers
    /\ available_types = <<>>
    /\ pages = LogicPages
    /\ phase = "compiling"
    /\ last = [kind |-> "none", out |-> [kind |-> "none"], page |-> "",
                before |-> <<NoRenderers, <<>>>>]
    /\ ncalls = 0

\* One compile_page call.  DynamicResource.__init__ makes the calls in page
\* order, stores each returned pair in pages and lets an exception abort the
\* construction; after that only direct calls on the object remain.
CompilePage(page) ==
    /\ phase \in {"compiling", "failed"}
    /\ ncalls < MaxCompileCalls
    /\ \E c \in {compile_page(renderers, available_types, page)} :
           /\ renderers' = c.renderers
           /\ available_types' = c.available_types
           /\ last' = [kind |-> c.out.kind, out |-> c.out, page |-> page,
                       before |-> <<renderers, available_types>>]
           /\ pages' = IF c.out.kind = "ok"
                       THEN Append(pages, [render |-> c.out.render,
                                           media_type |-> c.out.media_type])
                       ELSE pages
           /\ phase' = IF c.out.kind = "ok" THEN phase ELSE "failed"
    /\ ncalls' = ncalls + 1
    /\ UNCHANGED <<parseVars, jsonVars, requestVars>>

\* __init__ returns: every page compiled and there were at least min_pages.
FinishCompile ==
    /\ phase = "compiling"
    /\ Len(pages) >= min_pages
    /\ phase' = "compiled"
    /\ UNCHANGED <<renderers, available_types, pages, last, ncalls,
                   parseVars, jsonVars, requestVars>>

-----------------------------------------------------------------------------
(* NegotiatedResource.get_response, one request at a time or interleaved.  *)

Requests == 1..NumRequests

\* context: each request has its own.
ContextOf(r) == "ctx" \o ToString(r)

NoRender == [renderer |-> "", raw |-> ""]
NoRaise == [code |-> 0, body |-> ""]

\* Response(406, msg.encode('US-ASCII'))
Response406(ats) ==
    [code |-> 406,
     body |-> "The following media types are available: "
              \o Join(ats, ", ") \o "."]

\* Lines 144-148: what follows from best_match's answer.
Negotiated(ats, rs, media_type) ==
    IF media_type = ""
    THEN [raised |-> Response406(ats), media_type |-> "", render |-> NoRender]
    ELSE [raised |-> NoRaise, media_type |-> media_type,
          render |-> rs[media_type]]

\* Negotiate defaulting to the last content page (pages[-1]) instead of the
\* first (pages[2]).
Negotiate_last_page(ats, rs, pgs, accept) ==
    IF accept # None /\ accept # ""
    THEN Negotiated(ats, rs, best_match(ats, accept))
    ELSE [raised |-> NoRaise, media_type |-> pgs[Len(pgs)].media_type,
          render |-> pgs[Len(pgs)].render]

\* Lines 140-150: the media type and render function to use, or the raised
\* Response.  pgs[3] is self.pages[2].
Negotiate(ats, rs, pgs, accept) ==
    IF accept # None /\ accept # ""
    THEN Negotiated(ats, rs, best_match(ats, accept))
    ELSE [raised |-> NoRaise, media_type |-> pgs[3].media_type,
          render |-> pgs[3].render]

\* SetContentType that never appends the charset.
SetContentType_without_charset(response, media_type) ==
    IF "Content-Type" \notin DOMAIN response.headers
    THEN [response EXCEPT !.headers =
            SetHeader(response.headers, "Content-Type", media_type)]
    ELSE response

\* Lines 154-159.
SetContentType(response, media_type) ==
    IF "Content-Type" \notin DOMAIN response.headers
    THEN [response EXCEPT !.headers =
            SetHeader(response.headers, "Content-Type",
                      IF StartsWith(media_type, "text/")
                         /\ response.charset # None
                      THEN media_type \o "; charset=" \o response.charset
                      ELSE media_type)]
    ELSE response

\* The Accept headers and fresh responses a request may arrive with.
AcceptHeaders ==
    { None, "", "text/json", "image/png, audio/*",
      "text/*;q=0.5, application/json", "text/plain;q=0" }

FreshResponses ==
    { [body |-> "", headers |-> EmptyHeaders, charset |-> None],
      [body |-> "", headers |-> EmptyHeaders, charset |-> "UTF-8"],
      [body |-> "", headers |-> [h \in {"Content-Type"} |-> "text/html"],
       charset |-> "UTF-8"] }

IdleRequest ==
    [accept |-> None, context |-> "",
     resp0 |-> [body |-> "", headers |-> EmptyHeaders, charset |-> None]]
IdleLocals == [raised |-> NoRaise, media_type |-> "", render |-> NoRender]

RequestInit ==
    /\ req = [r \in Requests |-> IdleRequest]
    /\ resp = [r \in Requests |-> IdleRequest.resp0]
    /\ pc = [r \in Requests |-> "idle"]
    /\ loc = [r \in Requests |-> IdleLocals]

\* A request arrives: the host builds its context and response.
Begin(r) ==
    /\ phase = "compiled"
    /\ pc[r] = "idle"
    /\ \E a \in AcceptHeaders, fresh \in FreshResponses :
          /\ req' = [req EXCEPT ![r] = [accept |-> a, context |-> ContextOf(r),
                                        resp0 |-> fresh]]
          /\ resp' = [resp EXCEPT ![r] = fresh]
    /\ pc' = [pc EXCEPT ![r] = "negotiate"]
    /\ UNCHANGED <<loc, parseVars, jsonVars, resourceVars>>

\* NegotiateStep that also moves the chosen media type to the front of
\* self.available_types, so that the next request finds it first.
NegotiateStep_reordering(r) ==
    /\ pc[r] = "negotiate"
    /\ \E n \in {Negotiate(available_types, renderers, pages, req[r].accept)} :
           /\ loc' = [loc EXCEPT ![r] = n]
           /\ pc' = [pc EXCEPT ![r] = IF n.raised.code # 0 THEN "raised"
                                      ELSE "render"]
           /\ available_types' =
                 IF n.raised.code # 0 THEN available_types
                 ELSE LET IsOther(t) == t # n.media_type
                      IN  <<n.media_type>> \o SelectSeq(available_types, IsOther)
    /\ UNCHANGED <<req, resp, parseVars, jsonVars, renderers, pages, phase,
                   last, ncalls>>

\* get_response, lines 140-150.
NegotiateStep(r) ==
    /\ pc[r] = "negotiate"
    /\ \E n \in {Negotiate(available_types, renderers, pages, req[r].accept)} :
           /\ loc' = [loc EXCEPT ![r] = n]
           /\ pc' = [pc EXCEPT ![r] = IF n.raised.code # 0 THEN "raised"
                                      ELSE "render"]
    /\ UNCHANGED <<req, resp, parseVars, jsonVars, resourceVars>>

\* get_response, lines 152-153.
RenderStep(r) ==
    /\ pc[r] = "render"
    /\ resp' = [resp EXCEPT ![r].body = Render(loc[r].render, req[r].context)]
    /\ pc' = [pc EXCEPT ![r] = "headers"]
    /\ UNCHANGED <<req, loc, parseVars, jsonVars, resourceVars>>

\* get_response, lines 154-161.
ContentTypeStep(r) ==
    /\ pc[r] = "headers"
    /\ resp' = [resp EXCEPT ![r] = SetContentType(resp[r], loc[r].media_type)]
    /\ pc' = [pc EXCEPT ![r] = "returned"]
    /\ UNCHANGED <<req, loc, parseVars, jsonVars, resourceVars>>

\* The host has sent the response (or the raised one); the next request.
Finish(r) ==
    /\ pc[r] \in {"returned", "raised"}
    /\ req' = [req EXCEPT ![r] = IdleRequest]
    /\ resp' = [resp EXCEPT ![r] = IdleRequest.resp0]
    /\ loc' = [loc EXCEPT ![r] = IdleLocals]
    /\ pc' = [pc EXCEPT ![r] = "idle"]
    /\ UNCHANGED <<parseVars, jsonVars, resourceVars>>

-----------------------------------------------------------------------------
(* _parse_specline alone, on every specline of the bounded set.            *)

MediaAlphabet == {"a", "/", ";"}

MediaTokens ==
    StringsUpTo(MediaAlphabet, MaxTokLen)
    \cup {"text/plain", "text/plain;charset=utf-8", "text/html, text/plain",
          "text", "application/xhtml+xml", "x-a.b/c-d.e"}

RendererTokens == {"#!tornado", "#!pystache", "#!mako", "#!", "tornado",
                   "#!Tornado"}

Speclines ==
    MediaTokens
    \cup {rt \o " " \o m : rt \in RendererTokens, m \in MediaTokens}
    \cup {" " \o m \o "\t" : m \in MediaTokens}
    \cup {"#!tornado text/plain extra", "a b c d"}

ParseInit ==
    /\ specline \in Speclines
    /\ parsed = [kind |-> "pending"]

ParseIdle ==
    /\ specline = ""
    /\ parsed = [kind |-> "unused"]

ParseSpecline ==
    /\ parsed.kind = "pending"
    /\ parsed' = _parse_specline(specline)
    /\ UNCHANGED <<specline, jsonVars, resourceVars, requestVars>>

-----------------------------------------------------------------------------
(* Specifications.                                                         *)

Init == ParseIdle /\ JSONIdle /\ ResourceInit /\ RequestInit

Compile ==
    \/ \E page \in ContentPages : CompilePage(page)
    \/ FinishCompile

Serve(r) ==
    \/ Begin(r)
    \/ NegotiateStep(r)
    \/ RenderStep(r)
    \/ ContentTypeStep(r)
    \/ Finish(r)

\* Compilation, then requests served one after the other.
Next == Compile \/ Serve(1)

Spec == Init /\ [][Next]_vars

\* Compilation, then NumRequests requests in flight at once, their steps
\* interleaved in any order.
NextConcurrent == Compile \/ \E r \in Requests : Serve(r)

SpecConcurrent == Init /\ [][NextConcurrent]_vars

InitParse == ParseInit /\ JSONIdle /\ ResourceInit /\ RequestInit

NextParse == ParseSpecline

SpecParse == InitParse /\ [][NextParse]_vars

InitJSON == ParseIdle /\ JSONInit /\ ResourceInit /\ RequestInit

NextJSON == get_response_json \/ process_raised_response

SpecJSON == InitJSON /\ [][NextJSON]_vars

-----------------------------------------------------------------------------
(* What the claims speak of.                                               *)

\* t occurs in s.
Contains(s, t) ==
    \E i \in 1..(Len(s) - Len(t) + 1) : SubSeq(s, i, i + Len(t) - 1) = t

\* s is, over its whole length, one type/subtype pair.
IsMediaType(s) ==
    LET n1 == RunLen(s, 1, MediaTypeChars)
        n2 == RunLen(s, n1 + 2, MediaTypeChars)
    IN  n1 >= 1 /\ CharAt(s, n1 + 1) = "/" /\ n2 >= 1 /\ n1 + 1 + n2 = Len(s)

\* s consists, over its whole length, of callback characters.
IsCallbackName(s) == Len(s) >= 1 /\ RunLen(s, 1, CallbackChars) = Len(s)

\* The media-type token of a specline of one or two tokens.
MediaTypeToken(line) == Split(line)[Len(Split(line))]

NoDuplicates(seq) ==
    \A i, j \in DOMAIN seq : seq[i] = seq[j] => i = j

-----------------------------------------------------------------------------
(* C1, under SpecParse.                                                    *)

\* C1: a specline of one or two tokens whose media-type token is not, over
\* its whole length, one type/subtype pair makes _parse_specline raise a
\* SyntaxError whose message contains that token.
C1_MalformedMediaTypeRejected ==
    (/\ parsed.kind \notin {"pending", "unused"}
     /\ Len(Split(specline)) \in {1, 2}
     /\ ~IsMediaType(MediaTypeToken(specline)))
    => /\ parsed.kind = "SyntaxError"
       /\ Contains(parsed.msg, MediaTypeToken(specline))

-----------------------------------------------------------------------------
(* C2, C4 and C8, under SpecJSON.                                          *)

Processed == jpc \in {"returned", "raised"}

\* The body as _process leaves it when it does not wrap it.
Unwrapped ==
    IF IsBasestring(jresp.orig.body) THEN jresp.orig.body.s
    ELSE json_dumps(jresp.orig.body)

ContentType == jresp.now.headers["Content-Type"]

IsWrapped ==
    /\ jreq.callback # None
    /\ jresp.now.body = PyStr(jreq.callback \o "(" \o Unwrapped \o ")")
    /\ ContentType = media_type_jsonp

IsPlain ==
    /\ jresp.now.body = PyStr(Unwrapped)
    /\ ContentType = media_type_json

\* C2: with enable_jsonp set, a callback made only of [_A-Za-z0-9] wraps the
\* body and switches Content-Type to JSONP; any other callback value leaves
\* the body unwrapped and Content-Type JSON.
C2_CallbackCheckedOverWholeValue ==
    (Processed /\ Truthy(jreq.enable_jsonp) /\ jreq.callback # None)
    => IF IsCallbackName(jreq.callback) THEN IsWrapped ELSE IsPlain

\* C4 as stated: a non-text body always ends as its JSON serialization with
\* Content-Type the JSON media type, whatever enable_jsonp, enable_cors and
\* the callback are.
C4_AlwaysPlainJSON ==
    (Processed /\ ~IsBasestring(jresp.orig.body))
    => /\ jresp.now.body = PyStr(json_dumps(jresp.orig.body))
       /\ ContentType = media_type_json

\* C4 as amended: a non-text body ends either as its JSON serialization with
\* the JSON media type, or as callback(serialization) with the JSONP media
\* type; the latter only with enable_jsonp set and a callback given.
C4_SerializedThenMaybeWrapped ==
    (Processed /\ ~IsBasestring(jresp.orig.body))
    => /\ IsPlain \/ IsWrapped
       /\ (~Truthy(jreq.enable_jsonp) \/ jreq.callback = None) => IsPlain

C4_Witness ==
    /\ Processed
    /\ jresp.orig.body = PyDict(<< <<PyStr("a"), PyInt("1")>> >>)
    /\ jreq.callback = "foo"
    /\ jresp.now.body = PyStr("foo({\"a\": 1})")
    /\ ContentType = media_type_jsonp

\* C8: with enable_cors set, Access-Control-Allow-Origin is "*" after
\* _process, on both entry paths, whatever the body, enable_jsonp and the
\* callback are.
C8_CorsHeader ==
    (Processed /\ Truthy(jreq.enable_cors))
    => /\ "Access-Control-Allow-Origin" \in DOMAIN jresp.now.headers
       /\ jresp.now.headers["Access-Control-Allow-Origin"] = "*"

C8_Witness ==
    /\ jpc = "raised"
    /\ Truthy(jreq.enable_cors)
    /\ Truthy(jreq.enable_jsonp)
    /\ jreq.callback = "foo"
    /\ IsWrapped
    /\ "Access-Control-Allow-Origin" \in DOMAIN jresp.orig.headers
    /\ jresp.now.headers["Access-Control-Allow-Origin"] = "*"

-----------------------------------------------------------------------------
(* C3, C5, C6, C7 and C10, under Spec.                                     *)

\* get_response has got past lines 140-150 for request r.
NegotiationDone(r) == pc[r] \in {"render", "headers", "returned", "raised"}

\* No range of the Accept header admits any of the types with a q above 0.
MatchesNone(accept, ats) ==
    \A i \in DOMAIN ats :
        fitness_and_quality_parsed(ats[i], parse_accept(accept)).q = 0

DropLast(x) == SubSeq(x, 1, Len(x) - 1)

\* The media types a 406 body lists: the words after the sentence's first
\* six, without the ", " between them and the final ".".
ListedTypes(body) ==
    LET words == Split(body)
        items == SubSeq(words, 7, Len(words))
    IN  [i \in DOMAIN items |-> DropLast(items[i])]

\* C3 speaks of: text/plain declared first and text/json second, a request
\* with Accept: text/json whose response has no Content-Type yet, returned.
C3_Case(r) ==
    /\ pc[r] = "returned"
    /\ Len(available_types) >= 2
    /\ SubSeq(available_types, 1, 2) = <<"text/plain", "text/json">>
    /\ req[r].accept = "text/json"
    /\ "Content-Type" \notin DOMAIN req[r].resp0.headers

RendersSecondPage(r) ==
    /\ pages[4].media_type = "text/json"
    /\ resp[r].body = Render(pages[4].render, req[r].context)

\* C3 as stated: the text/json page is rendered and Content-Type is exactly
\* "text/json", whatever charset the response has.
C3_NoCharsetForTextJson ==
    \A r \in Requests :
        C3_Case(r) => /\ RendersSecondPage(r)
                      /\ resp[r].headers["Content-Type"] = "text/json"

\* C3 as amended: the text/json page is rendered and Content-Type is
\* "text/json" when the response has no charset, and
\* "text/json; charset=<charset>" when it has one.
C3_CharsetWhenConfigured ==
    \A r \in Requests :
        C3_Case(r) =>
            /\ RendersSecondPage(r)
            /\ resp[r].headers["Content-Type"] =
                  IF resp[r].charset = None THEN "text/json"
                  ELSE "text/json; charset=" \o resp[r].charset

C3_Witness ==
    \E r \in Requests :
        /\ C3_Case(r)
        /\ resp[r].charset = "UTF-8"
        /\ resp[r].headers["Content-Type"] = "text/json; charset=UTF-8"
        /\ resp[r].body = "<tornado:{{dump}}|ctx1>"

\* C5: a request whose Accept header matches none of the available types
\* gets a raised 406 whose body lists every available type exactly once, in
\* declaration order.
C5_NoMatchIs406 ==
    \A r \in Requests :
        (/\ NegotiationDone(r)
         /\ req[r].accept # None
         /\ MatchesNone(req[r].accept, available_types))
        => /\ pc[r] = "raised"
           /\ loc[r].raised.code = 406
           /\ ListedTypes(loc[r].raised.body) = available_types
           /\ NoDuplicates(ListedTypes(loc[r].raised.body))

\* C6: a request without an Accept header is never refused and gets the
\* first declared content page: the media type and render function the first
\* successful compile_page call registered.
C6_NoAcceptServesFirstPage ==
    \A r \in Requests :
        (NegotiationDone(r) /\ req[r].accept = None)
        => /\ pc[r] # "raised"
           /\ loc[r].media_type = available_types[1]
           /\ loc[r].render = renderers[available_types[1]]
           /\ loc[r].render = pages[3].render
           /\ pc[r] \in {"headers", "returned"}
                 => resp[r].body = Render(renderers[available_types[1]],
                                          req[r].context)

C6_Witness ==
    \E r \in Requests :
        /\ pc[r] = "returned"
        /\ req[r].accept = None
        /\ available_types = <<"text/json", "text/plain">>
        /\ resp[r].body = "<tornado:{{dump}}|ctx1>"

\* The renderer a specline of one or two tokens asks for.
RendererToken(line) ==
    IF Len(Split(line)) = 1 THEN "#!tornado" ELSE Split(line)[1]

\* The latest compile_page call was for a page declaring a media type that
\* an earlier content page had registered.
DeclaresRegistered ==
    /\ last.kind # "none"
    /\ Len(Split(SpeclineOf(last.page))) \in {1, 2}
    /\ MediaTypeToken(SpeclineOf(last.page)) \in DOMAIN last.before[1]

ContentTypesDistinct ==
    \A i, j \in 3..Len(pages) :
        pages[i].media_type = pages[j].media_type => i = j

\* C7 as stated: the compile_page call for a second page with a media type
\* raises SyntaxError, and no compiled resource holds two content pages for
\* one media type.
C7_DuplicateRaisesSyntaxError ==
    /\ DeclaresRegistered => last.kind = "SyntaxError"
    /\ phase = "compiled" => ContentTypesDistinct

\* C7 as amended: the call fails and registers nothing, construction fails,
\* and the error is a SyntaxError unless the page asks for a renderer that
\* is not registered (ValueError); no compiled resource holds two content
\* pages for one media type.
C7_DuplicateFailsCompilation ==
    /\ DeclaresRegistered
          => /\ last.kind \in {"SyntaxError", "ValueError"}
             /\ last.kind = "ValueError"
                   => SubSeq(RendererToken(SpeclineOf(last.page)), 3,
                             Len(RendererToken(SpeclineOf(last.page))))
                      \notin renderer_factories
             /\ <<renderers, available_types>> = last.before
             /\ phase = "failed"
    /\ phase = "compiled" => ContentTypesDistinct

C7_Witness ==
    /\ DeclaresRegistered
    /\ last.page = " text/plain\nbye"
    /\ last.kind = "SyntaxError"
    /\ last.out.msg = "Two content pages defined for text/plain."
    /\ available_types = <<"text/plain">>
    /\ Len(pages) = min_pages

\* C10: available_types has no duplicates, its elements are exactly the keys
\* of renderers, and a failing compile_page call leaves both as they were.
C10_TypesAreRendererKeys ==
    /\ NoDuplicates(available_types)
    /\ Range(available_types) = DOMAIN renderers
    /\ last.kind \notin {"none", "ok"}
          => <<renderers, available_types>> = last.before

C10_Witness ==
    /\ last.kind = "ValueError"
    /\ last.page = " #!mako text/plain\nx"
    /\ ncalls = 2
    /\ available_types = <<"text/plain;q=1">>
    /\ DOMAIN renderers = {"text/plain;q=1"}

-----------------------------------------------------------------------------
(* C9, under SpecConcurrent.                                               *)

\* What a request has got: the raised Response, if any, and its response.
Outcome(locals, response) == [raised |-> locals.raised, resp |-> response]

\* What get_response gives a request when it runs from start to end with
\* nothing in between, n being what lines 140-150 decide.
AloneOutcome(n, request) ==
    IF n.raised.code # 0
    THEN [raised |-> n.raised, resp |-> request.resp0]
    ELSE [raised |-> NoRaise,
          resp |-> SetContentType(
                      [request.resp0 EXCEPT
                          !.body = Render(n.render, request.context)],
                      n.media_type)]

ServedAlone(ats, rs, pgs, request) ==
    AloneOutcome(Negotiate(ats, rs, pgs, request.accept), request)

\* C9: once the resource is compiled, no step of any request changes
\* renderers, available_types or pages; a step of one request leaves every
\* other request's context, locals and response alone; and a request that
\* finishes (returns or raises) has got what it would have got served alone.
C9_RequestsIsolated ==
    [][phase = "compiled"
         => /\ UNCHANGED <<renderers, available_types, pages>>
            /\ \A r \in Requests :
                  pc'[r] = pc[r]
                     => /\ req'[r] = req[r]
                        /\ resp'[r] = resp[r]
                        /\ loc'[r] = loc[r]
            /\ \A r \in Requests :
                  (pc'[r] # pc[r] /\ pc'[r] \in {"returned", "raised"})
                     => Outcome(loc'[r], resp'[r])
                        = ServedAlone(available_types', renderers', pages',
                                      req'[r])]_vars

C9_Witness ==
    /\ pc[1] = "headers"
    /\ pc[2] = "raised"
    /\ req[1].accept = "text/*;q=0.5, application/json"
    /\ req[2].accept = "image/png, audio/*"
    /\ resp[1].body = "<pystache:{}|ctx1>"
    /\ loc[2].raised.code = 406
    /\ available_types = <<"text/plain", "application/json">>

=============================================================================
